---------------------------- MODULE Spec2Model ----------------------------
(***************************************************************************)
(* Model of extract_helper.c: the three section decoders dsci_v0, dsci_v2  *)
(* and dsci_v13 and the two bit-stream unpackers unpack_block_idxs_wc and  *)
(* unpack_block_idxs_nc.                                                   *)
(*                                                                         *)
(* Representation.  A uint64_t word is the set of the positions (0..63) of *)
(* its one bits, so that or, and, and the shifts are set operations and no *)
(* value leaves the range of the model checker's integers.  A uint32_t     *)
(* that may reach 2^32 - 1 (maxPaletteIdx) is a pair <<hi, lo>> of 16-bit  *)
(* halves.  The histogram is a sparse map: blockCount holds the cells the  *)
(* call has written, every other cell still holds H0(cell).  The counters  *)
(* are uint64_t; the initial histograms H0 stay far below 2^64, where the  *)
(* increment is the mathematical one.                                      *)
(***************************************************************************)
EXTENDS Integers, Sequences, FiniteSets, TLC

VARIABLES
    fn,             \* the function called: "v0", "v2", "v13", "unpack", "conc"
    sel,            \* selects the contents of the input arrays and of H0
    scen,           \* dsci_v0 only: the arrays are those of the v0 scenario
    pad,            \* no-carry words: the padding bits at the top are ones
    junk,           \* what an element of paletteIdxs holds before it is written
    pc,             \* position in the called function
    blockCount,     \* histogram cells written so far (cell index -> counter)
    idLim, ySection, maxPaletteIdx, carry,    \* parameters
    idxBits,        \* dsci_v13's local / the unpackers' parameter
    iin, iout, packBuf, bufSize,              \* unpack_block_idxs_wc locals
    buf, i,                                   \* unpack_block_idxs_nc locals
    paletteIdxs,    \* dsci_v13's stack buffer, the unpackers' `unpacked`
    xz, y, zx,      \* loop counters of the decoders
    readHi,         \* number of leading words of `packed` the unpacker has read
    nWrites,        \* number of stores into `unpacked` so far
    thr             \* the concurrent calls (thread -> its parameters and locals)

vars == <<fn, sel, scen, pad, junk, pc, blockCount, idLim, ySection, maxPaletteIdx, carry,
          idxBits, iin, iout, packBuf, bufSize, buf, i, paletteIdxs,
          xz, y, zx, readHi, nWrites, thr>>

(***************************************************************************)
(* Bounds of the model (not program constants).                            *)
(***************************************************************************)
NumSeeds == 2       \* input patterns sel \in 0..NumSeeds-1
WidthCap == 36      \* the width loop's counter is not followed beyond this
ConcRows == 2       \* concurrent calls: rows y < ConcRows of a section
ConcSlots == 1      \* concurrent calls: slots zx < ConcSlots of a row
MaxSection == 2     \* concurrent calls: ySection \in 0..MaxSection

(***************************************************************************)
(* Program constants.                                                      *)
(***************************************************************************)
NumCells == 4096            \* 16 * 16 * 16
SectionRows == 16           \* y < 16
V0Columns == 256            \* xz < 16 * 16
V0Height == 128             \* y < 128
V0IdLim == 4096             \* idLim = 256 * 16
V2RowSlots == 128           \* zx < 16 * 16 / 2
V13RowCells == 256          \* zx < 16 * 16
MaxIdxBits == 16            \* idxBits > 16 returns

(***************************************************************************)
(* Bit arithmetic.                                                         *)
(***************************************************************************)
Pow2(n) == 2 ^ n

BitOf(n, b) == (n \div Pow2(b)) % 2

\* the low nibble and the high nibble of a byte
NIBBLE_LO(x) == x % 16

NIBBLE_HI(x) == (x \div 16) % 16

\* uint64_t as the set of its one bits
Shl64(w, n) == {b + n : b \in {c \in w : c + n <= 63}}

Shr64(w, n) == {b - n : b \in {c \in w : c >= n}}

\* x & 0xffffffffu
Lo32(w) == {b \in w : b <= 31}

\* x >> 32
Hi32LowAgain(w) == {b \in w : b <= 31}

Hi32(w) == Shr64(w, 32)

RECURSIVE BitsVal(_, _)
BitsVal(w, b) == IF b < 0 THEN 0
                 ELSE (IF b \in w THEN Pow2(b) ELSE 0) + BitsVal(w, b - 1)

\* const uint16_t mask = (1 << idxBits) - 1
Mask(bits) == (Pow2(bits) - 1) % 65536

\* (uint16_t)(word & mask)
AndMask(w, m) == BitsVal({b \in w : b <= 15 /\ BitOf(m, b) = 1}, 15)


(***************************************************************************)
(* uint32_t values that may exceed the checker's integers: <<hi, lo>>,     *)
(* value hi * 65536 + lo.                                                  *)
(***************************************************************************)
U32(n) == <<n \div 65536, n % 65536>>

U32Pow2(n) == IF n < 16 THEN <<0, Pow2(n)>> ELSE <<Pow2(n - 16), 0>>

U32Lt(a, b) == a[1] < b[1] \/ (a[1] = b[1] /\ a[2] < b[2])

\* a + 1 in uint32_t arithmetic: 0xffffffff + 1 = 0
U32Inc(a) == IF a[2] < 65535 THEN <<a[1], a[2] + 1>>
             ELSE IF a[1] < 65535 THEN <<a[1] + 1, 0>> ELSE <<0, 0>>

(***************************************************************************)
(* The input arrays.  Their contents are fixed by sel (and, for the        *)
(* packed words, by the width and the carry convention the caller packed   *)
(* them for).                                                              *)
(***************************************************************************)
Gen(s, k) == (k * 40503 + (k \div 5) * 977 + s * 25717 + 65535) % 65536

\* the number of values a palette of maxPaletteIdx + 1 entries can index
PaletteSize == IF maxPaletteIdx[1] = 0 THEN maxPaletteIdx[2] + 1 ELSE 65536

\* the k-th value the caller packed: below 2^idxBits, and for dsci_v13 a valid
\* palette index
Val(k) == IF fn = "v13" THEN (Gen(sel, k) % Pow2(idxBits)) % PaletteSize
          ELSE Gen(sel, k) % Pow2(idxBits)

\* bit b of the continuous bit sequence of the values, least significant first
StreamBit(b) == BitOf(Val(b \div idxBits), b % idxBits)

\* padding bits at the top of a no-carry word
PadBit(w, b) == IF pad THEN 1 ELSE 0

\* the words of `packed`, packed contiguously (with carry) ...
PackedWC(w) == {b \in 0..63 : StreamBit(64 * w + b) = 1}

\* ... or word by word, floor(64 / idxBits) values in each (no carry)
PackedNC(w) ==
    LET p == 64 \div idxBits
    IN  {b \in 0..63 : IF b < p * idxBits
                       THEN BitOf(Val(w * p + b \div idxBits), b % idxBits) = 1
                       ELSE PadBit(w, b) = 1}

packed(w) == IF carry THEN PackedWC(w) ELSE PackedNC(w)

(***************************************************************************)
(* The output buffer and the histogram.                                    *)
(***************************************************************************)
Store(f, k, v) == IF k \in DOMAIN f THEN [f EXCEPT ![k] = v] ELSE f @@ (k :> v)

\* the histogram before the call
H0(c) == IF sel = 0 THEN 0 ELSE (c % 7) * sel

CountIn(bc, c) == IF c \in DOMAIN bc THEN bc[c] ELSE H0(c)

Count(c) == CountIn(blockCount, c)

\* blockCount[c]++
IncrLost(bc, c) == Store(bc, c, CountIn(bc, c))

Incr(bc, c) == Store(bc, c, CountIn(bc, c) + 1)

(***************************************************************************)
(* unpack_block_idxs_wc and unpack_block_idxs_nc                           *)
(***************************************************************************)
decoderVars == <<fn, sel, scen, pad, junk, blockCount, idLim, ySection,
                 maxPaletteIdx, carry, idxBits, xz, y, zx, thr>>

\* if (iout >= 16 * 16 * 16) return;
AtCapacityLate(n) == n > NumCells

AtCapacity(n) == n >= NumCells

\* the condition of for (...; i >= idxBits; ...)
NcFitsAnyBitsLeft(rem, bits) == rem > 0

NcFits(rem, bits) == rem >= bits

\* where each step of the unpackers is taken
AtEntry == pc = "call"

AtWcLowHalf == pc = "wc_lo"

AtWcHighHalf == pc = "wc_hi"

AtNcWord == pc = "nc_load"

\* the call of the unpacker: the guard of lines 75/109 and the initialisation
UnpackEntry ==
    /\ AtEntry
    /\ IF idxBits > MaxIdxBits
       THEN /\ pc' = "ret"
            /\ UNCHANGED <<iin, iout, packBuf, bufSize>>
       ELSE /\ pc' = IF carry THEN "wc_lo" ELSE "nc_load"
            /\ iin' = 0
            /\ iout' = 0
            /\ packBuf' = {}
            /\ bufSize' = 0
    /\ UNCHANGED <<decoderVars, buf, i, paletteIdxs, readHi, nWrites>>

\* the stores unpacked[io] = vals[1], unpacked[io + 1] = vals[2], ...
StoreAll(out, io, vals) ==
    LET new == [k \in io..(io + Len(vals) - 1) |-> vals[k - io + 1]]
    IN  IF DOMAIN new \cap DOMAIN out = {} THEN out @@ new ELSE new @@ out

\* while (bufSize >= idxBits) { unpacked[iout++] = packBuf & mask;
\*     if (iout >= 16 * 16 * 16) return; packBuf >>= idxBits; bufSize -= idxBits; }
\* started with iout = io; vals: the values stored so far, in order.  The
\* locals when the loop is left; ret: it was left by the return.
RECURSIVE WcWhile(_, _, _, _)
WcWhile(pb, bs, io, vals) ==
    IF bs >= idxBits
    THEN IF AtCapacity(io + Len(vals) + 1)
         THEN [packBuf |-> pb, bufSize |-> bs,
               vals |-> Append(vals, AndMask(pb, Mask(idxBits))), ret |-> TRUE]
         ELSE WcWhile(Shr64(pb, idxBits), bs - idxBits, io,
                      Append(vals, AndMask(pb, Mask(idxBits))))
    ELSE [packBuf |-> pb, bufSize |-> bs, vals |-> vals, ret |-> FALSE]

\* packBuf |= (packed[iin] & 0xffffffffu) << bufSize; bufSize += 32; while ...
WcLowHalf ==
    /\ AtWcLowHalf
    /\ \E r \in {WcWhile(packBuf \cup Shl64(Lo32(packed(iin)), bufSize),
                         bufSize + 32, iout, << >>)} :
           /\ packBuf' = r.packBuf
           /\ bufSize' = r.bufSize
           /\ iout' = iout + Len(r.vals)
           /\ paletteIdxs' = StoreAll(paletteIdxs, iout, r.vals)
           /\ nWrites' = nWrites + Len(r.vals)
           /\ pc' = IF r.ret THEN "ret" ELSE "wc_hi"
    /\ readHi' = IF iin + 1 > readHi THEN iin + 1 ELSE readHi
    /\ UNCHANGED <<decoderVars, iin, buf, i>>

\* packBuf |= (packed[iin++] >> 32) << bufSize; bufSize += 32; while ...
WcHighHalf ==
    /\ AtWcHighHalf
    /\ \E r \in {WcWhile(packBuf \cup Shl64(Hi32(packed(iin)), bufSize),
                         bufSize + 32, iout, << >>)} :
           /\ packBuf' = r.packBuf
           /\ bufSize' = r.bufSize
           /\ iout' = iout + Len(r.vals)
           /\ paletteIdxs' = StoreAll(paletteIdxs, iout, r.vals)
           /\ nWrites' = nWrites + Len(r.vals)
           /\ pc' = IF r.ret THEN "ret" ELSE "wc_lo"
    /\ iin' = iin + 1
    /\ readHi' = IF iin + 1 > readHi THEN iin + 1 ELSE readHi
    /\ UNCHANGED <<decoderVars, buf, i>>

\* for (uint32_t i = 64; i >= idxBits; i -= idxBits) { unpacked[iout++] = buf & mask;
\*     if (iout >= 16 * 16 * 16) return; buf >>= idxBits; }
\* started with iout = io; vals: the values stored so far, in order.  The
\* locals when the loop is left; ret: it was left by the return.
RECURSIVE NcFor(_, _, _, _)
NcFor(b, rem, io, vals) ==
    IF NcFits(rem, idxBits)
    THEN IF AtCapacity(io + Len(vals) + 1)
         THEN [buf |-> b, i |-> rem,
               vals |-> Append(vals, AndMask(b, Mask(idxBits))), ret |-> TRUE]
         ELSE NcFor(Shr64(b, idxBits), rem - idxBits, io,
                    Append(vals, AndMask(b, Mask(idxBits))))
    ELSE [buf |-> b, i |-> rem, vals |-> vals, ret |-> FALSE]

\* uint64_t buf = packed[iin++]; for (i = 64; ...) ...
NcWord ==
    /\ AtNcWord
    /\ \E r \in {NcFor(packed(iin), 64, iout, << >>)} :
           /\ buf' = r.buf
           /\ i' = r.i
           /\ iout' = iout + Len(r.vals)
           /\ paletteIdxs' = StoreAll(paletteIdxs, iout, r.vals)
           /\ nWrites' = nWrites + Len(r.vals)
           /\ pc' = IF r.ret THEN "ret" ELSE "nc_load"
    /\ iin' = iin + 1
    /\ readHi' = IF iin + 1 > readHi THEN iin + 1 ELSE readHi
    /\ UNCHANGED <<decoderVars, packBuf, bufSize>>

NextUnpack ==
    \/ UnpackEntry
    \/ WcLowHalf
    \/ WcHighHalf
    \/ NcWord

\* the locals before a call
Fresh ==
    /\ blockCount = << >>
    /\ iin = 0 /\ iout = 0 /\ packBuf = {} /\ bufSize = 0
    /\ buf = {} /\ i = 0
    /\ paletteIdxs = << >>
    /\ xz = 0 /\ y = 0 /\ zx = 0
    /\ readHi = 0 /\ nWrites = 0

\* a call of an unpacker on its own, with any width 4..17
InitUnpack ==
    /\ fn = "unpack"
    /\ sel \in 0..(NumSeeds - 1)
    /\ pc = "call"
    /\ idxBits \in 4..(MaxIdxBits + 1)
    /\ carry \in BOOLEAN
    /\ pad \in IF ~carry /\ idxBits <= MaxIdxBits /\ 64 % idxBits # 0
               THEN BOOLEAN ELSE {FALSE}
    /\ idLim = 0 /\ ySection = 0 /\ maxPaletteIdx = U32(0) /\ scen = FALSE
    /\ junk = 0
    /\ thr = << >>
    /\ Fresh

SpecUnpack == InitUnpack /\ [][NextUnpack]_vars

(***************************************************************************)
(* The byte arrays of dsci_v0 and dsci_v2, and the palette of dsci_v13.    *)
(***************************************************************************)
Pick(tab, k) == tab[(k % Len(tab)) + 1]

blocks(k) == IF scen THEN (IF k = 0 THEN 1 ELSE IF k = 1 THEN 2 ELSE 0)
             ELSE Pick(<<255, 0, 7>>, k + sel)

metadata(k) == IF scen THEN 0 ELSE Pick(<<240, 15, 165>>, k + 2 * sel)

add(k) == Pick(<<0, 241, 46>>, k + sel)

\* sel = 0: identifiers below 2^17
add2(k) == IF sel = 0 THEN Pick(<<0, 16, 17>>, k) ELSE Pick(<<240, 60, 1>>, k + sel)

paletteMap(k) == (k * 37 + sel * 11) % 61

(***************************************************************************)
(* dsci_v0                                                                 *)
(***************************************************************************)
\* blockCount[layer * idLim + bid]
HistCellNoSection(ys, layer, lim, bid) == layer * lim + bid

HistCell(ys, layer, lim, bid) == (ys * 16 + layer) * lim + bid

Bid1V0(idx) == blocks(idx + 0) * 16 + NIBBLE_LO(metadata(idx \div 2))

Bid2V0LowNibble(idx) == blocks(idx + 1) * 16 + NIBBLE_LO(metadata(idx \div 2))

Bid2V0(idx) == blocks(idx + 1) * 16 + NIBBLE_HI(metadata(idx \div 2))

\* the loop bound y < 128
V0RowsShort == V0Height - 2

V0Rows == V0Height

\* one iteration of the inner loop of dsci_v0 (lines 23-32)
V0Step ==
    /\ fn = "v0" /\ pc = "loop"
    /\ LET idx == y + xz * 128
       IN  blockCount' = Incr(Incr(blockCount,
                                   (y + 0) * V0IdLim + Bid1V0(idx)),
                              (y + 1) * V0IdLim + Bid2V0(idx))
    /\ IF y + 2 < V0Rows
       THEN y' = y + 2 /\ xz' = xz /\ pc' = pc
       ELSE /\ y' = 0
            /\ xz' = xz + 1
            /\ pc' = IF xz + 1 < V0Columns THEN pc ELSE "done"
    /\ UNCHANGED <<fn, sel, scen, pad, junk, idLim, ySection, maxPaletteIdx,
                   carry, idxBits, iin, iout, packBuf, bufSize, buf, i,
                   paletteIdxs, zx, readHi, nWrites, thr>>

InitV0 ==
    /\ fn = "v0"
    /\ sel \in 0..(NumSeeds - 1)
    /\ scen \in BOOLEAN
    /\ pc = "loop"
    /\ idLim = V0IdLim /\ ySection = 0
    /\ maxPaletteIdx = U32(0) /\ carry = FALSE /\ idxBits = 0
    /\ pad = FALSE /\ junk = 0
    /\ thr = << >>
    /\ Fresh

SpecV0 == InitV0 /\ [][V0Step]_vars

(***************************************************************************)
(* dsci_v2                                                                 *)
(***************************************************************************)
Bid1V2(idx) == NIBBLE_LO(add2(idx)) * 65536 + NIBBLE_LO(add(idx)) * 4096
               + blocks(idx * 2 + 0) * 16 + NIBBLE_LO(metadata(idx))

Bid2V2Shift20(idx) == NIBBLE_HI(add2(idx)) * 1048576 + NIBBLE_HI(add(idx)) * 4096
                      + blocks(idx * 2 + 1) * 16 + NIBBLE_HI(metadata(idx))

Bid2V2(idx) == NIBBLE_HI(add2(idx)) * 65536 + NIBBLE_HI(add(idx)) * 4096
               + blocks(idx * 2 + 1) * 16 + NIBBLE_HI(metadata(idx))

\* the cells one iteration of the inner loop increments (lines 49-64)
V2Cells(ys, lim, yy, z) ==
    LET idx == z + yy * V2RowSlots
    IN  <<HistCell(ys, yy, lim, Bid1V2(idx)), HistCell(ys, yy, lim, Bid2V2(idx))>>

V2Step ==
    /\ fn = "v2" /\ pc = "loop"
    /\ LET c == V2Cells(ySection, idLim, y, zx)
       IN  blockCount' = Incr(Incr(blockCount, c[1]), c[2])
    /\ IF zx + 1 < V2RowSlots
       THEN zx' = zx + 1 /\ y' = y /\ pc' = pc
       ELSE /\ zx' = 0
            /\ y' = y + 1
            /\ pc' = IF y + 1 < SectionRows THEN pc ELSE "done"
    /\ UNCHANGED <<fn, sel, scen, pad, junk, idLim, ySection, maxPaletteIdx,
                   carry, idxBits, iin, iout, packBuf, bufSize, buf, i,
                   paletteIdxs, xz, readHi, nWrites, thr>>

InitV2 ==
    /\ fn = "v2"
    /\ sel \in 0..(NumSeeds - 1)
    /\ pc = "loop"
    /\ idLim \in {131072, 1048576}
    /\ ySection \in {0, 3}
    /\ maxPaletteIdx = U32(0) /\ carry = FALSE /\ idxBits = 0
    /\ scen = FALSE /\ pad = FALSE /\ junk = 0
    /\ thr = << >>
    /\ Fresh

SpecV2 == InitV2 /\ [][V2Step]_vars

(***************************************************************************)
(* dsci_v13                                                                *)
(***************************************************************************)
\* 1u << idxBits: undefined for idxBits >= 32, where builds yield 0 or shift
\* by idxBits mod 32
Shl1(n) == IF n < 32 THEN {U32Pow2(n)} ELSE {U32(0), U32Pow2(n % 32)}

\* maxPaletteIdx + 1
WidthLimitNoInc(m) == m

WidthLimit(m) == U32Inc(m)

\* while ((1u << idxBits) < maxPaletteIdx + 1) idxBits++;
WidthStep ==
    /\ fn = "v13" /\ pc = "width"
    /\ idxBits < WidthCap
    /\ \E sh \in Shl1(idxBits) : U32Lt(sh, WidthLimit(maxPaletteIdx))
    /\ idxBits' = idxBits + 1
    /\ UNCHANGED <<fn, sel, scen, pad, junk, pc, blockCount, idLim, ySection,
                   maxPaletteIdx, carry, iin, iout, packBuf, bufSize, buf, i,
                   paletteIdxs, xz, y, zx, readHi, nWrites, thr>>

WidthExit ==
    /\ fn = "v13" /\ pc = "width"
    /\ \E sh \in Shl1(idxBits) : ~U32Lt(sh, WidthLimit(maxPaletteIdx))
    /\ pc' = "call"
    /\ UNCHANGED <<fn, sel, scen, pad, junk, blockCount, idLim, ySection,
                   maxPaletteIdx, carry, idxBits, iin, iout, packBuf, bufSize,
                   buf, i, paletteIdxs, xz, y, zx, readHi, nWrites, thr>>

\* paletteIdxs[idx]: an element no store has reached holds what the stack held
PaletteIdxAt(idx) == IF idx \in DOMAIN paletteIdxs THEN paletteIdxs[idx] ELSE junk

\* the cell an iteration increments: bid = paletteMap[paletteIdxs[idx]]
V13Cell(ys, lim, yy, pidx) == HistCell(ys, yy, lim, paletteMap(pidx))

\* one iteration of the inner histogram loop (lines 146-148)
V13Hist ==
    /\ fn = "v13" /\ pc \in {"ret", "hist"}
    /\ blockCount' = Incr(blockCount,
                          V13Cell(ySection, idLim, y, PaletteIdxAt(zx + y * V13RowCells)))
    /\ IF zx + 1 < V13RowCells
       THEN zx' = zx + 1 /\ y' = y /\ pc' = "hist"
       ELSE /\ zx' = 0
            /\ y' = y + 1
            /\ pc' = IF y + 1 < SectionRows THEN "hist" ELSE "done"
    /\ UNCHANGED <<fn, sel, scen, pad, junk, idLim, ySection, maxPaletteIdx,
                   carry, idxBits, iin, iout, packBuf, bufSize, buf, i,
                   paletteIdxs, xz, readHi, nWrites, thr>>

NextV13 ==
    \/ WidthStep
    \/ WidthExit
    \/ UnpackEntry
    \/ WcLowHalf
    \/ WcHighHalf
    \/ NcWord
    \/ V13Hist

InitV13 ==
    /\ fn = "v13"
    /\ sel \in 0..(NumSeeds - 1)
    /\ pc = "width"
    /\ idxBits = 4
    /\ maxPaletteIdx \in {U32(15), U32(16), U32(300), U32(65535), U32(65536)}
    /\ carry \in BOOLEAN
    /\ idLim = 64
    /\ ySection = 3
    /\ junk \in IF maxPaletteIdx[1] > 0 THEN {0, 65535} ELSE {0}
    /\ scen = FALSE /\ pad = FALSE
    /\ thr = << >>
    /\ Fresh

SpecV13 == InitV13 /\ [][NextV13]_vars

\* the width selection on its own, for the values around every power of two
\* and the largest uint32_t
WidthInputs ==
    {U32Pow2(w) : w \in 0..31}
        \cup {U32Inc(U32Pow2(w)) : w \in 0..31}
        \cup {IF w < 16 THEN <<0, Pow2(w) - 1>> ELSE <<Pow2(w - 16) - 1, 65535>>
                : w \in 0..32}

InitWidth ==
    /\ fn = "v13"
    /\ sel = 0
    /\ pc = "width"
    /\ idxBits = 4
    /\ maxPaletteIdx \in WidthInputs
    /\ carry = FALSE
    /\ idLim = 64
    /\ ySection = 0
    /\ junk = 0
    /\ scen = FALSE /\ pad = FALSE
    /\ thr = << >>
    /\ Fresh

NextWidth ==
    \/ WidthStep
    \/ WidthExit

SpecWidth == InitWidth /\ [][NextWidth]_vars

\* one call of any of the three decoders
InitDecode == InitV0 \/ InitV2 \/ InitV13

NextDecode ==
    \/ V0Step
    \/ V2Step
    \/ WidthStep
    \/ WidthExit
    \/ UnpackEntry
    \/ WcLowHalf
    \/ WcHighHalf
    \/ NcWord
    \/ V13Hist

SpecDecode == InitDecode /\ [][NextDecode]_vars

(***************************************************************************)
(* Two decode calls (dsci_v2 or dsci_v13) running concurrently on one      *)
(* histogram.  blockCount[c]++ is a load of the counter followed by a      *)
(* store of the loaded value plus one.  The loops are cut to the first     *)
(* ConcSlots slots of the first ConcRows rows of the section; dsci_v13     *)
(* starts at its histogram loop, its own stack buffer holding the unpacked *)
(* values (the unpacker touches nothing shared).                           *)
(***************************************************************************)
Threads == {1, 2}

\* increments per slot zx: two in dsci_v2, one in dsci_v13
PerSlot(kind) == IF kind = "v2" THEN 2 ELSE 1

\* the cell of the k-th increment of the iteration (yy, z) of a call
CallCell(kind, ys, yy, z, k) ==
    IF kind = "v2" THEN V2Cells(ys, idLim, yy, z)[k]
    ELSE V13Cell(ys, idLim, yy, Val(z + yy * V13RowCells))

ThreadCell(t) == CallCell(thr[t].kind, thr[t].ys, thr[t].y, thr[t].zx, thr[t].k)

\* the load of blockCount[c]++
TRead(t) ==
    /\ thr[t].pc = "read"
    /\ thr' = [thr EXCEPT ![t].reg = Count(ThreadCell(t)), ![t].pc = "write"]
    /\ UNCHANGED <<fn, sel, scen, pad, junk, pc, blockCount, idLim, ySection,
                   maxPaletteIdx, carry, idxBits, iin, iout, packBuf, bufSize,
                   buf, i, paletteIdxs, xz, y, zx, readHi, nWrites>>

\* the store of blockCount[c]++, and the loop counters' advance
TWrite(t) ==
    /\ thr[t].pc = "write"
    /\ blockCount' = Store(blockCount, ThreadCell(t), thr[t].reg + 1)
    /\ LET r == thr[t]
       IN  thr' = [thr EXCEPT ![t] =
                IF r.k < PerSlot(r.kind) THEN [r EXCEPT !.k = r.k + 1, !.pc = "read"]
                ELSE IF r.zx + 1 < ConcSlots
                     THEN [r EXCEPT !.k = 1, !.zx = r.zx + 1, !.pc = "read"]
                ELSE [r EXCEPT !.k = 1, !.zx = 0, !.y = r.y + 1,
                               !.pc = IF r.y + 1 < ConcRows THEN "read" ELSE "done"]]
    /\ UNCHANGED <<fn, sel, scen, pad, junk, pc, idLim, ySection,
                   maxPaletteIdx, carry, idxBits, iin, iout, packBuf, bufSize,
                   buf, i, paletteIdxs, xz, y, zx, readHi, nWrites>>

NextConc == \E t \in Threads : TRead(t) \/ TWrite(t)

InitConc ==
    /\ fn = "conc"
    /\ sel \in 0..(NumSeeds - 1)
    /\ pc = "conc"
    /\ idLim = 1048576
    /\ idxBits = 4
    /\ \E k1 \in {"v2", "v13"}, k2 \in {"v2", "v13"} :
       \E s1 \in 0..MaxSection, s2 \in 0..MaxSection :
          /\ s1 # s2
          /\ thr = (1 :> [kind |-> k1, ys |-> s1, y |-> 0, zx |-> 0, k |-> 1,
                          pc |-> "read", reg |-> 0])
                   @@ (2 :> [kind |-> k2, ys |-> s2, y |-> 0, zx |-> 0, k |-> 1,
                             pc |-> "read", reg |-> 0])
    /\ ySection = 0 /\ maxPaletteIdx = U32(15) /\ carry = FALSE
    /\ scen = FALSE /\ pad = FALSE /\ junk = 0
    /\ Fresh

SpecConc == InitConc /\ [][NextConc]_vars

(***************************************************************************)
(* Properties of the unpackers.                                            *)
(***************************************************************************)
Returned == pc = "ret"

InWidth == idxBits >= 4 /\ idxBits <= MaxIdxBits

\* the values of unpacked[0..4095] are those the caller packed
AllUnpacked ==
    \A k \in 0..(NumCells - 1) : k \in DOMAIN paletteIdxs /\ paletteIdxs[k] = Val(k)

\* the values the last step wrote (a step writes at most 64 / 4 = 16 values)
LastUnpacked ==
    \A k \in (iout - 16)..(iout - 1) :
        k >= 0 => (k \in DOMAIN paletteIdxs /\ paletteIdxs[k] = Val(k))

\* C1: with carry, for every width 4..16, every value written is the value
\* the contiguous packer put at that position of the bit sequence (also the
\* values that straddle a 32-bit or 64-bit boundary), and at the return
\* unpacked[0..4095] are the 4096 packed values.
C1_WithCarryExact ==
    (fn = "unpack" /\ carry /\ InWidth)
        => (LastUnpacked /\ (Returned => AllUnpacked))

\* width 5: value 6 lies across bit 32 and value 12 across bit 64
C1_Witness ==
    /\ fn = "unpack" /\ carry /\ idxBits = 5 /\ sel = 1 /\ iout > 12
    /\ Val(6) > 0 /\ paletteIdxs[6] = Val(6)
    /\ Val(12) > 0 /\ paletteIdxs[12] = Val(12)

\* C2: without carry, for every width 4..16 and p = floor(64 / idxBits), every
\* value written is the value packed at position k mod p of word floor(k / p),
\* whatever the padding bits at the top of the words are.
C2_NoCarryExact ==
    (fn = "unpack" /\ ~carry /\ InWidth)
        => (LastUnpacked /\ (Returned => AllUnpacked))

\* width 5 leaves 4 padding bits per word, here all ones
C2_Witness ==
    /\ fn = "unpack" /\ ~carry /\ idxBits = 5 /\ pad /\ sel = 1 /\ iout > 13
    /\ 63 \in packed(0)
    /\ Val(11) > 0 /\ paletteIdxs[11] = Val(11)
    /\ paletteIdxs[12] = Val(12) /\ paletteIdxs[13] = Val(13)

\* the words the 4096 values occupy
Needed == IF carry THEN 64 * idxBits
          ELSE (NumCells + (64 \div idxBits) - 1) \div (64 \div idxBits)

C8_Safe ==
    (fn = "unpack" /\ InWidth) =>
        /\ nWrites = iout
        /\ iout <= NumCells
        /\ iout > 0 => (iout - 1) \in DOMAIN paletteIdxs
        /\ readHi <= Needed
        /\ Returned => /\ DOMAIN paletteIdxs = 0..(NumCells - 1)
                       /\ nWrites = NumCells
                       /\ readHi = Needed

\* a bound on the steps left: every step of an unpacker lowers it (each
\* half-word or word read yields at least one value, as idxBits <= 32)
Variant ==
    IF Returned THEN 0
    ELSE (NumCells - iout) + (IF pc = "call" THEN 1 ELSE 0)

\* some step of the unpacker can be taken
CanStep == AtEntry \/ AtWcLowHalf \/ AtWcHighHalf \/ AtNcWord

\* C8: for every width 4..16 both unpackers return (they can always take a
\* step until they return, and every step lowers a bound on the steps left),
\* having stored exactly once into each of unpacked[0..4095] and nowhere
\* else, and having read the words packed[0..Needed-1] and none of the words
\* that follow them.
C8_Termination ==
    /\ [](C8_Safe)
    /\ []((fn = "unpack" /\ InWidth /\ ~Returned) => (Variant > 0 /\ CanStep))
    /\ [][(fn = "unpack" /\ InWidth) => Variant' < Variant]_vars

\* a no-carry call that returns with values of its last word unused
C8_Witness ==
    /\ fn = "unpack" /\ ~carry /\ idxBits = 5 /\ Returned
    /\ nWrites = NumCells /\ readHi = 342 /\ i >= 2 * idxBits

(***************************************************************************)
(* Properties of the decoders.                                             *)
(***************************************************************************)
Done == pc = "done"

\* what the call has added to cell c so far
Gain(c) == Count(c) - H0(c)

RECURSIVE SumGain(_)
SumGain(S) == IF S = {} THEN 0
              ELSE LET c == CHOOSE x \in S : TRUE
                   IN  Gain(c) + SumGain(S \ {c})

\* the cells of histogram row r the call has written, and what it added to them
RowCells(r) == {c \in DOMAIN blockCount : c \div idLim = r}

RowGain(r) == SumGain(RowCells(r))

RECURSIVE SumRows(_)
SumRows(R) == IF R = {} THEN 0
              ELSE LET r == CHOOSE x \in R : TRUE
                   IN  RowGain(r) + SumRows(R \ {r})

TotalGain == SumRows({c \div idLim : c \in DOMAIN blockCount})

\* the cells whose counter the step changes
Changed == {c \in DOMAIN blockCount' : CountIn(blockCount', c) # Count(c)}

\* the histogram cell the claim C5 gives for the cell of column col at height h
C5Cell(col, h) ==
    LET idx == h + col * 128
        m == metadata(idx \div 2)
        n == IF h % 2 = 0 THEN m % 16 ELSE (m \div 16) % 16
    IN  h * 4096 + (blocks(idx) * 16 + n)

C5_StepExact ==
    (fn = "v0" /\ pc = "loop") =>
        LET a == C5Cell(xz, y)
            b == C5Cell(xz, y + 1)
        IN  /\ a \div 4096 = y /\ b \div 4096 = y + 1
            /\ \A c \in DOMAIN blockCount' \cup {a, b} :
                  CountIn(blockCount', c)
                      = Count(c) + (IF c = a THEN 1 ELSE 0) + (IF c = b THEN 1 ELSE 0)

\* C5: dsci_v0 adds exactly 1 to the cell [y * 4096 + ((blocks[idx] << 4) | n)]
\* for the cell of every column xz and height y (n the low nibble of
\* metadata[idx / 2] for even y, the high nibble for odd y), the identifier
\* is below 4096 so the increment falls in row y, and nothing else changes:
\* every step changes just the cells of its pair of heights, and at the end
\* each of the 128 rows has gained one increment per column.
C5_PerCell ==
    /\ [][C5_StepExact]_vars
    /\ []((fn = "v0" /\ Done) =>
            /\ \A c \in DOMAIN blockCount : c \div 4096 \in 0..127
            /\ \A r \in 0..127 : RowGain(r) = 256)

C5_Witness ==
    /\ fn = "v0" /\ Done /\ ~scen /\ sel = 1
    /\ Gain(127 * 4096 + 255 * 16 + 0) > 0
    /\ Gain(127 * 4096 + 255 * 16 + 15) = 0

\* C6 as claimed: after the scenario only (layer 0, id 16) and (layer 1, id 32)
\* have changed, each by 1.
C6_Original ==
    (fn = "v0" /\ scen /\ Done) =>
        /\ Gain(16) = 1
        /\ Gain(4096 + 32) = 1
        /\ \A c \in DOMAIN blockCount \ {16, 4096 + 32} : Gain(c) = 0

\* C6 amended: the scenario adds 1 to (layer 0, id 16) and to (layer 1, id 32),
\* 255 to (layer 0, id 0) and to (layer 1, id 0), 256 to (layer r, id 0) for
\* r in 2..127, and changes no other cell.
C6_Amended ==
    (fn = "v0" /\ scen /\ Done) =>
        /\ Gain(16) = 1
        /\ Gain(4096 + 32) = 1
        /\ Gain(0) = 255
        /\ Gain(4096) = 255
        /\ \A r \in 2..127 : Gain(r * 4096) = 256
        /\ DOMAIN blockCount = {16, 4096 + 32} \cup {r * 4096 : r \in 0..127}

C6_Witness ==
    /\ fn = "v0" /\ scen /\ Done /\ sel = 1
    /\ Count(16) = H0(16) + 1 /\ H0(16) > 0

\* the identifiers of the iteration at (y, zx) are below lim, and with
\* idLim >= lim the cells the iteration changes lie in row ySection * 16 + y
V2InRange(lim) ==
    (fn = "v2" /\ pc = "loop") =>
        /\ \A c \in Changed : c % idLim < lim
        /\ Bid1V2(zx + y * 128) < lim /\ Bid2V2(zx + y * 128) < lim
        /\ idLim >= lim => \A c \in Changed : c \div idLim = ySection * 16 + y

\* C4 as claimed: the identifiers of dsci_v2 are below 2^17.
C4_Original == [][V2InRange(131072)]_vars

\* C4 amended: the identifiers of dsci_v2 are 20-bit values (below 2^20 =
\* 1048576); whenever idLim >= 1048576 every increment lands in row
\* ySection * 16 + y at a column below idLim.
C4_Amended == [][V2InRange(1048576)]_vars

C4_Witness ==
    /\ fn = "v2" /\ Done /\ idLim = 1048576 /\ ySection = 3
    /\ \E c \in DOMAIN blockCount : c % idLim >= 983040 /\ c \div idLim = 63

\* the inputs C7 is about
WellFormed ==
    CASE fn = "v0" -> TRUE
      [] fn = "v2" -> \A idx \in 0..2047 : Bid1V2(idx) < idLim /\ Bid2V2(idx) < idLim
      [] fn = "v13" -> /\ maxPaletteIdx[1] = 0
                       /\ \A k \in 0..(NumCells - 1) :
                            /\ k \in DOMAIN paletteIdxs
                            /\ paletteIdxs[k] <= maxPaletteIdx[2]
                            /\ paletteMap(paletteIdxs[k]) < idLim

SectionCells == IF fn = "v0" THEN 32768 ELSE 4096

SectionLayers == IF fn = "v0" THEN 0..127 ELSE (ySection * 16)..(ySection * 16 + 15)

C7_AtEnd ==
    (Done /\ WellFormed) =>
        /\ TotalGain = SectionCells
        /\ \A c \in DOMAIN blockCount : c \div idLim \in SectionLayers
        /\ \A r \in SectionLayers : RowGain(r) = 256

\* C7: for well-formed input a decode call adds to the histogram exactly the
\* section's cell count (32768 for dsci_v0, 4096 for dsci_v2 and dsci_v13),
\* 256 in each layer of the section, and no step lowers a counter.
C7_Conservation ==
    /\ [](C7_AtEnd)
    /\ [][\A c \in DOMAIN blockCount' : CountIn(blockCount', c) >= Count(c)]_vars

C7_Witness ==
    /\ fn = "v2" /\ Done /\ WellFormed /\ sel = 1 /\ ySection = 3
    /\ TotalGain = 4096

\* C10 as claimed: every element of paletteIdxs the histogram loop reads was
\* written by the unpacker during the call.
C10_ReadsWritten ==
    (fn = "v13" /\ pc \in {"ret", "hist"}) => (zx + y * 256) \in DOMAIN paletteIdxs

\* the smallest width >= 4 with 2^width >= maxPaletteIdx + 1
WidthFits(w) == w >= 32 \/ U32Lt(maxPaletteIdx, U32Pow2(w))

MinWidth == CHOOSE w \in 4..32 : WidthFits(w) /\ \A v \in 4..(w - 1) : ~WidthFits(v)

WidthChosen == fn = "v13" /\ pc = "call"

\* C3 as claimed: for every maxPaletteIdx the loop ends with the smallest width.
C3_Original == WidthChosen => idxBits = MinWidth

\* maxPaletteIdx <= 2^31 - 1
C3_InRange == maxPaletteIdx[1] < 32768

\* C3 amended: for every maxPaletteIdx <= 2^31 - 1 the loop terminates (it
\* can step until it exits, every step raises idxBits, and idxBits stays
\* below 32) and the width chosen is the smallest value >= 4 with
\* 2^idxBits >= maxPaletteIdx + 1.
C3_Amended ==
    /\ []((fn = "v13" /\ C3_InRange) =>
            /\ idxBits <= 31
            /\ pc = "width" => ENABLED NextWidth
            /\ pc = "call" => idxBits = MinWidth)
    /\ [][(fn = "v13" /\ C3_InRange /\ pc = "width")
            => (pc' = "call" \/ idxBits' = idxBits + 1)]_vars

C3_Witness == WidthChosen /\ maxPaletteIdx = U32(256) /\ idxBits = 9

(***************************************************************************)
(* Properties of concurrent calls.                                         *)
(***************************************************************************)
AllDone == fn = "conc" /\ \A t \in Threads : thr[t].pc = "done"

\* the number of increments of a (cut) call
CallLength(kind) == ConcRows * ConcSlots * PerSlot(kind)

\* the cell of the n-th increment of the call of thread t, n counted from 0
NthCell(t, n) ==
    LET per == PerSlot(thr[t].kind)
    IN  CallCell(thr[t].kind, thr[t].ys,
                 n \div (ConcSlots * per), (n \div per) % ConcSlots, (n % per) + 1)

\* the histogram after the first n increments of the call of thread t, run
\* alone from histogram bc
RECURSIVE RunCall(_, _, _)
RunCall(bc, t, n) == IF n = 0 THEN bc
                     ELSE Incr(RunCall(bc, t, n - 1), NthCell(t, n - 1))

OneAfterTheOther(t, u) ==
    RunCall(RunCall(<< >>, t, CallLength(thr[t].kind)), u, CallLength(thr[u].kind))

\* C9: two decode calls with different ySection and identifiers below idLim,
\* their increments split into a load and a store: under every interleaving
\* the final histogram is the one the two calls leave when run one after
\* the other, in either order.
C9_Disjoint ==
    AllDone => /\ blockCount = OneAfterTheOther(1, 2)
               /\ blockCount = OneAfterTheOther(2, 1)

C9_Witness ==
    /\ AllDone /\ sel = 1
    /\ thr[1].kind = "v2" /\ thr[2].kind = "v13"
    /\ thr[1].ys = 2 /\ thr[2].ys = 0
    /\ Cardinality(DOMAIN blockCount) > 2
    /\ blockCount = OneAfterTheOther(1, 2)

=============================================================================
